---------------------------- MODULE Spec2Model ----------------------------
(***************************************************************************)
(* Model of app.py: the Streamlit dashboard script of                      *)
(* GlobalWarmingForecast.  Two specifications share the module:            *)
(*   SpecFn - the function generate_scenario applied to arbitrary tables   *)
(*   Spec   - the script re-run on every interaction (load_data + page)    *)
(* Tables are pandas DataFrames: an ordered list of column names, a row    *)
(* count and one value sequence per column.  Column values are floats; the *)
(* model keeps round-to-nearest-even with a short mantissa (Precision      *)
(* bits) on integers counted in a fixed unit.  The fitted values of the    *)
(* least-squares regression are computed exactly, as rationals <<n, d>>.   *)
(***************************************************************************)
EXTENDS Integers, Sequences, FiniteSets, TLC

\* ------------------------------------------------------------------ bounds
MaxRows == 4
Precision == 2
MaxRuns == 3

\* ------------------------------------------------------------ column names
YEAR == "Year"
CO2 == "CO2_Concentration_ppm"
CH4 == "CH4_Concentration_ppb"
N2O == "N2O_Concentration_ppb"
TEMP == "Temperature_Anomaly_C"
PRED == "Predicted_Temperature_Anomaly_C"

Range(s) == {s[i] : i \in 1..Len(s)}

\* ------------------------------------------------------- float arithmetic
Abs(x) == IF x < 0 THEN -x ELSE x

RECURSIVE Pow2(_)
Pow2(k) == IF k = 0 THEN 1 ELSE 2 * Pow2(k - 1)

\* spacing of the representable numbers around magnitude ax
RECURSIVE Quantum(_)
Quantum(ax) == IF ax < Pow2(Precision) THEN 1 ELSE 2 * Quantum(ax \div 2)

\* round to nearest representable, ties to the even mantissa
Round(x) ==
    LET ax == Abs(x)
        q == Quantum(ax)
        m == ax \div q
        r == ax % q
        up == (2 * r > q) \/ (2 * r = q /\ m % 2 = 1)
        mag == IF up THEN (m + 1) * q ELSE m * q
    IN IF x < 0 THEN -mag ELSE mag

Representable(x) == Round(x) = x

\* one element of Series.__iadd__, a float addition (FaddAsSub: a variant
\* that subtracts the offset)
FaddAsSub(x, k) == Round(x - k)

Fadd(x, k) == Round(x + k)

\* ------------------------------------------------------ exact rationals
RECURSIVE Gcd(_, _)
Gcd(a, b) == IF b = 0 THEN a ELSE Gcd(b, a % b)

Rat(n, d) ==
    LET g == Gcd(Abs(n), Abs(d))
        s == IF d < 0 THEN -1 ELSE 1
    IN <<s * (n \div g), s * (d \div g)>>

RAdd(p, q) ==
    LET g == Gcd(p[2], q[2])
    IN Rat(p[1] * (q[2] \div g) + q[1] * (p[2] \div g), (p[2] \div g) * q[2])

Dot(u, v) ==
    LET RECURSIVE S(_)
        S(i) == IF i = 0 THEN 0 ELSE u[i] * v[i] + S(i - 1)
    IN S(Len(u))

IsZero(v) == \A i \in 1..Len(v) : v[i] = 0

\* divide an integer vector by the gcd of its components
Reduce(v) ==
    LET RECURSIVE G(_)
        G(i) == IF i = 0 THEN 0 ELSE Gcd(Abs(v[i]), G(i - 1))
        g == G(Len(v))
    IN IF g = 0 THEN v ELSE [i \in 1..Len(v) |-> v[i] \div g]

\* component of v orthogonal to the (mutually orthogonal) vectors of basis
RECURSIVE Residual(_, _)
Residual(v, basis) ==
    IF basis = <<>> THEN v
    ELSE LET u == Head(basis)
             uu == Dot(u, u)
             vu == Dot(v, u)
             w == Reduce([i \in 1..Len(v) |-> uu * v[i] - vu * u[i]])
         IN Residual(w, Tail(basis))

\* orthogonal basis of the span of the vectors of vs
RECURSIVE OrthoBasis(_, _)
OrthoBasis(vs, basis) ==
    IF vs = <<>> THEN basis
    ELSE LET w == Residual(Head(vs), basis)
         IN OrthoBasis(Tail(vs), IF IsZero(w) THEN basis ELSE Append(basis, w))

\* orthogonal projection of y on the span of basis, as a vector of rationals
RECURSIVE Proj(_, _)
Proj(y, basis) ==
    IF basis = <<>> THEN [i \in 1..Len(y) |-> <<0, 1>>]
    ELSE LET u == Head(basis)
             yu == Dot(y, u)
             uu == Dot(u, u)
             rest == Proj(y, Tail(basis))
         IN [i \in 1..Len(y) |-> RAdd(Rat(yu * u[i], uu), rest[i])]

Ones(n) == [i \in 1..n |-> 1]

\* rank of the design matrix [1 | X]
DesignRank(X, n) == Len(OrthoBasis(<<Ones(n)>> \o X, <<>>))

\* LinearRegression().fit(X, y) followed by predict(X): the fitted values.
\* The estimator rejects an empty sample; otherwise its solver is a
\* least-squares routine, and whatever the rank of X the fitted values are
\* the projection of y on the span of the intercept and the columns of X.
\* FitPredictSolve is a solver of the normal equations, which raises when
\* they are singular.
FitPredictSolve(X, y, n) ==
    IF n = 0 THEN [status |-> "ValueError", fitted |-> <<>>]
    ELSE IF DesignRank(X, n) < 4 THEN [status |-> "LinAlgError", fitted |-> <<>>]
    ELSE [status |-> "ok", fitted |-> Proj(y, OrthoBasis(<<Ones(n)>> \o X, <<>>))]

\* (FitPredictNoIntercept: the estimator with fit_intercept=False)
FitPredictNoIntercept(X, y, n) ==
    IF n = 0 THEN [status |-> "ValueError", fitted |-> <<>>]
    ELSE [status |-> "ok", fitted |-> Proj(y, OrthoBasis(X, <<>>))]

FitPredict(X, y, n) ==
    IF n = 0 THEN [status |-> "ValueError", fitted |-> <<>>]
    ELSE [status |-> "ok", fitted |-> Proj(y, OrthoBasis(<<Ones(n)>> \o X, <<>>))]

\* the regressors are perfectly collinear: the design matrix is rank deficient
Collinear(X, n) == DesignRank(X, n) < 4


\* ----------------------------------------------------------- DataFrames
NoTable == [cols |-> <<>>, n |-> -1, data |-> <<>>]

HasCol(t, c) == c \in Range(t.cols)

NumCols(t) == Len(t.cols)

Full == <<YEAR, CO2, CH4, N2O, TEMP>>

Required == {CO2, CH4, N2O, TEMP}

Without(cols, c) ==
    LET Keep(x) == x # c
    IN SelectSeq(cols, Keep)

\* the column lists a CSV may come with: the schema, the schema with one
\* required column missing, the schema with a prediction column already there
Schemas == {Full, Full \o <<PRED>>} \cup {Without(Full, c) : c \in Required}

\* rows <<CO2, CH4, N2O, Temperature_Anomaly>>, all representable floats
RowPool == <<<<4, 0, 1, 1>>, <<2, 2, 0, 2>>, <<0, 0, 0, 0>>, <<1, 2, 1, 4>>, <<8, 0, 2, 3>>>>

\* the rows of RowPool picked by the index set S, in the pool's order
RowsOf(S) ==
    LET RECURSIVE F(_, _)
        F(i, acc) == IF i > Len(RowPool) THEN acc
                     ELSE F(i + 1, IF i \in S THEN Append(acc, RowPool[i]) ELSE acc)
    IN F(1, <<>>)

RowSeqs == {RowsOf(S) : S \in {T \in SUBSET (1..Len(RowPool)) : Cardinality(T) <= MaxRows}}

CellOf(c, rs, i) ==
    CASE c = YEAR -> 2020 + i
      [] c = CO2 -> rs[i][1]
      [] c = CH4 -> rs[i][2]
      [] c = N2O -> rs[i][3]
      [] c = TEMP -> rs[i][4]
      [] OTHER -> <<0, 1>>

MkTable(cols, rs) ==
    [cols |-> cols, n |-> Len(rs),
     data |-> [c \in Range(cols) |-> [i \in 1..Len(rs) |-> CellOf(c, rs, i)]]]

Baselines == {MkTable(cols, rs) : cols \in Schemas, rs \in RowSeqs}

\* slider settings <<co2_change, ch4_change, n2o_change>>
Offsets == {<<0, 0, 0>>, <<1, 0, 0>>, <<-1, 2, 0>>, <<0, 2, 1>>, <<1, 2, 1>>, <<1, 0, -1>>}

\* ---------------------------------------------------- generate_scenario
\* df.copy(): a new object (df_copy_alias: the caller's object itself)
df_copy_alias(t) == [tbl |-> t, shared |-> TRUE]

df_copy(t) == [tbl |-> t, shared |-> FALSE]

\* scenario_df[c] += k (iadd_assign: an assignment of k in place of +=)
iadd_assign(t, c, k) ==
    [t EXCEPT !.data[c] = [i \in 1..t.n |-> k]]

iadd(t, c, k) ==
    [t EXCEPT !.data[c] = [i \in 1..t.n |-> Fadd(t.data[c][i], k)]]

\* scenario_df[c] = vals: overwrite the column, or append a new one.
\* setitem_front inserts the new column first and loses the first row.
setitem_front(t, c, vals) ==
    IF HasCol(t, c) THEN [t EXCEPT !.data[c] = vals]
    ELSE [cols |-> <<c>> \o t.cols, n |-> t.n - 1,
          data |-> [x \in Range(t.cols) \cup {c} |->
                      [i \in 1..(t.n - 1) |-> IF x = c THEN vals[i + 1] ELSE t.data[x][i + 1]]]]

setitem(t, c, vals) ==
    IF HasCol(t, c) THEN [t EXCEPT !.data[c] = vals]
    ELSE [cols |-> Append(t.cols, c), n |-> t.n,
          data |-> [x \in Range(t.cols) \cup {c} |-> IF x = c THEN vals ELSE t.data[x]]]

\* scenario_df[c]: the lookup of a column, a KeyError when it is absent.
\* getitem_default creates the absent column, filled with zeros.
getitem_default(t, c) ==
    IF HasCol(t, c) THEN [found |-> TRUE, tbl |-> t]
    ELSE [found |-> TRUE, tbl |-> setitem(t, c, [i \in 1..t.n |-> 0])]

getitem(t, c) == [found |-> HasCol(t, c), tbl |-> t]

\* the returned record: status, the returned table (NoTable when the call
\* raised) and the value the caller's table holds when the call is over
generate_scenario(df, co2_change, ch4_change, n2o_change) ==
    LET cp == df_copy(df)
        After(t) == IF cp.shared THEN t ELSE df
        Raise(e, t) == [status |-> e, value |-> NoTable, baseline |-> After(t)]
        q1 == getitem(cp.tbl, CO2)
    IN IF ~q1.found THEN Raise("KeyError", q1.tbl) ELSE
       LET q2 == getitem(iadd(q1.tbl, CO2, co2_change), CH4)
       IN IF ~q2.found THEN Raise("KeyError", q2.tbl) ELSE
       LET q3 == getitem(iadd(q2.tbl, CH4, ch4_change), N2O)
       IN IF ~q3.found THEN Raise("KeyError", q3.tbl) ELSE
       LET q4 == getitem(iadd(q3.tbl, N2O, n2o_change), TEMP)
       IN IF ~q4.found THEN Raise("KeyError", q4.tbl) ELSE
       LET s3 == q4.tbl
           X == <<s3.data[CO2], s3.data[CH4], s3.data[N2O]>>
           y == s3.data[TEMP]
           model == FitPredict(X, y, s3.n)
       IN IF model.status # "ok" THEN Raise(model.status, s3) ELSE
          LET s4 == setitem(s3, PRED, model.fitted)
          IN [status |-> "ok", value |-> s4, baseline |-> After(s4)]

NoCall == [kind |-> "none", offs |-> <<0, 0, 0>>, prev |-> <<0, 0, 0>>,
           status |-> "none", value |-> NoTable]

VARIABLES
    B,        \* SpecFn: the caller's baseline table, as it is now
    B0,       \* SpecFn: the baseline the caller constructed
    ret,      \* SpecFn: the latest call, its offsets and what it returned
    mark,     \* SpecFn: an earlier call made on B, remembered
    before,   \* SpecFn: calls were made on B before the marked call
    between,  \* SpecFn: a call with other offsets was made after the marked call
    disk,     \* Spec: the table in the CSV file at the fixed path
    cache,    \* Spec: the st.cache_data entry of load_data()
    reads,    \* Spec: how many times pd.read_csv read the file
    runs,     \* Spec: how many script runs the process has made
    first,    \* Spec: the table the first load_data() returned
    loaded,   \* Spec: the table load_data() returned in the latest run
    df,       \* Spec: the script's df when the latest run ended
    menu_choice, \* Spec: the sidebar choice of the latest run
    sliders,  \* Spec: the three slider values of the latest run, when it drew them
    earlier,  \* Spec: the slider values of the run before the latest
    upload,   \* Spec: the upload page's widget values in the latest run
    section,  \* Spec: the page sections the latest run executed, in order
    outcome,  \* Spec: "ok", or the exception that left the latest run uncaught
    message,  \* Spec: the notice the page's own code wrote, "none" if none
    view      \* Spec: what the latest run handed to the renderer

fnvars == <<B, B0, ret, mark, before, between>>

appvars == <<disk, cache, reads, runs, first, loaded, df, menu_choice, sliders,
             earlier, upload, section, outcome, message, view>>

vars == <<B, B0, ret, mark, before, between, disk, cache, reads, runs, first, loaded, df,
          menu_choice, sliders, earlier, upload, section, outcome, message, view>>

NoView == [kind |-> "none"]

\* a run that draws no slider keeps no slider value: the sliders start from
\* their default, 0.0, when the scenario page draws them again
NoSliders == <<0, 0, 0>>

NoFile == [cols |-> <<>>, dtype |-> <<>>]

\* the upload page's widgets when the page is not drawn
NoUpload == [file |-> NoFile, analysis |-> "none", columns |-> <<>>]

EmptyCache == [filled |-> FALSE, value |-> NoTable]

\* the script has not run yet
AppIdle ==
    /\ cache = EmptyCache
    /\ reads = 0
    /\ runs = 0
    /\ first = NoTable
    /\ loaded = NoTable
    /\ df = NoTable
    /\ menu_choice = "none"
    /\ sliders = NoSliders
    /\ earlier = NoSliders
    /\ upload = NoUpload
    /\ section = <<>>
    /\ outcome = "none"
    /\ message = "none"
    /\ view = NoView

InitFn ==
    /\ B \in Baselines
    /\ B0 = B
    /\ ret = NoCall
    /\ mark = NoCall
    /\ before = FALSE
    /\ between = FALSE
    /\ disk = NoTable
    /\ AppIdle

\* generate_scenario(B, a, b, c); remember says whether this call is the one
\* later calls are compared with
Call(o, remember) ==
    LET r == generate_scenario(B, o[1], o[2], o[3])
        rec == [kind |-> "call", offs |-> o, prev |-> <<0, 0, 0>>,
                status |-> r.status, value |-> r.value]
    IN /\ ret.kind # "chain"
       /\ ret' = rec
       /\ B' = r.baseline
       /\ IF mark.kind = "none" /\ remember
          THEN mark' = rec /\ before' = (ret.kind # "none") /\ between' = FALSE
          ELSE /\ mark' = mark
               /\ before' = before
               /\ between' = (between \/ (mark.kind = "call" /\ mark.offs # o))
       /\ UNCHANGED B0
       /\ UNCHANGED appvars

\* generate_scenario(out, d, e, f) on the table the latest call returned
Chain(o) ==
    /\ ret.kind = "call"
    /\ mark = ret
    /\ ~before /\ ~between
    /\ ret.status = "ok"
    /\ LET r == generate_scenario(ret.value, o[1], o[2], o[3])
       IN ret' = [kind |-> "chain", offs |-> o, prev |-> ret.offs,
                  status |-> r.status, value |-> r.value]
    /\ UNCHANGED <<B, B0, mark, before, between>>
    /\ UNCHANGED appvars

NextFn == \/ \E o \in Offsets, remember \in BOOLEAN : Call(o, remember)
          \/ \E o \in Offsets : Chain(o)

SpecFn == InitFn /\ [][NextFn]_vars

\* ----------------------------------------------- claims on generate_scenario
Gases == <<CO2, CH4, N2O>>

SchemaOk(t) == \A c \in Required : HasCol(t, c)

Returned == ret.kind = "call" /\ ret.status = "ok"

\* C1: non-mutation. Whatever calls were made, returning or raising, the
\* caller's baseline table holds the values it was constructed with.
C1_NonMutation == B = B0

C1_Witness ==
    /\ Returned
    /\ ret.value.data[CO2] # B0.data[CO2]
    /\ ret.value.data[N2O] # B0.data[N2O]
    /\ B = B0

\* C2 (as stated): in the returned table each concentration column is the
\* baseline's column plus its offset (float sum) and every other column of
\* the baseline has the baseline's values.
C2_AsStated ==
    Returned =>
        /\ \A g \in 1..3 : \A i \in 1..B0.n :
              ret.value.data[Gases[g]][i] = Round(B0.data[Gases[g]][i] + ret.offs[g])
        /\ \A c \in Range(B0.cols) \ Range(Gases) : ret.value.data[c] = B0.data[c]

\* C2 (amended): in the returned table each concentration column is the
\* baseline's column plus its offset (float sum), exactly the baseline's
\* column when the offset is zero, and every other column of the baseline,
\* except a Predicted_Temperature_Anomaly_C column the baseline came with
\* (which is overwritten), has the baseline's values.
C2_InputColumns ==
    Returned =>
        /\ \A g \in 1..3 : \A i \in 1..B0.n :
              /\ ret.value.data[Gases[g]][i] = Round(B0.data[Gases[g]][i] + ret.offs[g])
              /\ ret.offs[g] = 0 => ret.value.data[Gases[g]][i] = B0.data[Gases[g]][i]
        /\ \A c \in Range(B0.cols) \ (Range(Gases) \cup {PRED}) :
              ret.value.data[c] = B0.data[c]

C2_Witness ==
    /\ Returned
    /\ B0.n >= 2
    /\ ret.offs[1] # 0 /\ ret.offs[2] # 0 /\ ret.offs[3] = 0
    /\ ret.value.data[TEMP] = B0.data[TEMP]
    /\ ret.value.data[CO2] # B0.data[CO2]

\* C3 (as stated): for a baseline with the required columns the returned
\* table has exactly one more column than the baseline, as many rows, and
\* the rows in the baseline's order.
C3_AsStated ==
    (Returned /\ SchemaOk(B0)) =>
        /\ NumCols(ret.value) = NumCols(B0) + 1
        /\ ret.value.n = B0.n
        /\ ret.value.data[YEAR] = B0.data[YEAR]

\* C3 (amended): the returned table has the baseline's columns in the
\* baseline's order, followed by Predicted_Temperature_Anomaly_C as one more
\* column unless the baseline already has a column of that name (then the
\* column count is unchanged); it has as many rows, in the baseline's order.
C3_ColumnCount ==
    (Returned /\ SchemaOk(B0)) =>
        /\ ret.value.cols = IF HasCol(B0, PRED) THEN B0.cols ELSE Append(B0.cols, PRED)
        /\ NumCols(ret.value) = NumCols(B0) + (IF HasCol(B0, PRED) THEN 0 ELSE 1)
        /\ ret.value.n = B0.n
        /\ \A c \in DOMAIN ret.value.data : Len(ret.value.data[c]) = B0.n
        /\ ret.value.data[YEAR] = B0.data[YEAR]
        /\ ret.value.data[TEMP] = B0.data[TEMP]

C3_Witness ==
    /\ Returned
    /\ ~HasCol(B0, PRED)
    /\ B0.n >= 3
    /\ NumCols(ret.value) = NumCols(B0) + 1

\* C4: determinism. A call with the offsets of an earlier call on B returns
\* what the earlier call returned, whatever calls were made on B before the
\* earlier call or between the two.
C4_Determinism ==
    (ret.kind = "call" /\ mark.kind = "call" /\ ret.offs = mark.offs) =>
        (ret.status = mark.status /\ ret.value = mark.value)

C4_Witness ==
    /\ Returned
    /\ mark.kind = "call"
    /\ before /\ between
    /\ ret.offs = mark.offs
    /\ ret.offs # <<0, 0, 0>>
    /\ ret.value = mark.value

\* C5: schema error. On a baseline that lacks a required column the call
\* raises, returns no table, and leaves the baseline as it was.
C5_SchemaError ==
    (ret.kind = "call" /\ ~SchemaOk(B0)) =>
        /\ ret.status = "KeyError"
        /\ ret.value = NoTable
        /\ B = B0

C5_Witness ==
    /\ ret.kind = "call"
    /\ ~HasCol(B0, N2O)
    /\ B0.n >= 1
    /\ ret.offs[1] # 0
    /\ ret.status = "KeyError"

\* the regressors the latest call fitted: the baseline's concentration
\* columns with the call's offsets applied
OffsetX == [g \in 1..3 |-> [i \in 1..B0.n |-> Round(B0.data[Gases[g]][i] + ret.offs[g])]]

CollinearCall ==
    /\ ret.kind = "call"
    /\ SchemaOk(B0)
    /\ B0.n >= 1
    /\ Collinear(OffsetX, B0.n)

RSum(v) ==
    LET RECURSIVE S(_)
        S(i) == IF i = 0 THEN <<0, 1>> ELSE RAdd(v[i], S(i - 1))
    IN S(Len(v))

\* C6 (as stated): when the offset concentration columns are perfectly
\* collinear the call fails with an error instead of returning a table.
C6_AsStated == CollinearCall => (ret.status # "ok" /\ ret.value = NoTable)

\* C6 (amended): when the offset concentration columns are perfectly
\* collinear the call raises nothing: it returns the table with
\* Predicted_Temperature_Anomaly_C holding one number per row, the
\* least-squares fitted values (their sum is the sum of the observed
\* anomalies, as for every fit with an intercept).
C6_CollinearFits ==
    CollinearCall =>
        /\ ret.status = "ok"
        /\ Len(ret.value.data[PRED]) = B0.n
        /\ \A i \in 1..B0.n : ret.value.data[PRED][i][2] > 0
        /\ RSum(ret.value.data[PRED]) = <<Dot(B0.data[TEMP], Ones(B0.n)), 1>>

C6_Witness ==
    /\ CollinearCall
    /\ ret.status = "ok"
    /\ \E i \in 1..B0.n : ret.value.data[PRED][i] # <<B0.data[TEMP][i], 1>>

\* the single call C7 compares the chained calls with
SingleCall == generate_scenario(B0, Round(ret.prev[1] + ret.offs[1]),
                                Round(ret.prev[2] + ret.offs[2]),
                                Round(ret.prev[3] + ret.offs[3]))

Chained == ret.kind = "chain" /\ ret.status = "ok"

\* C7 (as stated): offsets (a,b,c) then (d,e,f) applied to the output of the
\* first call give the same concentration columns and the same table as the
\* single call with (a+d, b+e, c+f).
C7_AsStated ==
    Chained =>
        /\ \A g \in 1..3 : ret.value.data[Gases[g]] = SingleCall.value.data[Gases[g]]
        /\ ret.value = SingleCall.value

\* no float addition of the chained or the single call rounds
NoRounding ==
    \A g \in 1..3 :
        /\ Representable(ret.prev[g] + ret.offs[g])
        /\ \A i \in 1..B0.n :
              /\ Representable(B0.data[Gases[g]][i] + ret.prev[g])
              /\ Representable(B0.data[Gases[g]][i] + ret.prev[g] + ret.offs[g])

\* C7 (amended): offsets (a,b,c) then (d,e,f) applied to the output of the
\* first call give the same concentration columns and the same table as the
\* single call with (a+d, b+e, c+f) whenever none of the float additions
\* involved rounds; when one rounds the two can differ.
C7_OffsetLinearity ==
    (Chained /\ NoRounding) =>
        /\ SingleCall.status = "ok"
        /\ \A g \in 1..3 : ret.value.data[Gases[g]] = SingleCall.value.data[Gases[g]]
        /\ ret.value = SingleCall.value

C7_Witness ==
    /\ Chained
    /\ NoRounding
    /\ B0.n >= 2
    /\ ret.prev[1] # 0 /\ ret.offs[1] # 0
    /\ ret.prev[1] + ret.offs[1] # 0
    /\ ret.value = SingleCall.value

\* ------------------------------------------------------------ the script
\* the sidebar options, in the order of the radio widget.  The strings stand
\* for the source's strings: each option starts with an emoji there, and the
\* seven options are the seven literals of the chain, character for character.
\* (menu_options_plain: the last option typed without the emoji's variation
\* selector, a string no literal of the chain equals)
menu_options_plain == <<"Home", "Scenario Analysis", "Advanced Visualizations",
                        "Time Series Forecast (ARIMA & Prophet)", "Upload & Analyze Data",
                        "Generate Reports", "About (plain)">>

menu_options == <<"Home", "Scenario Analysis", "Advanced Visualizations",
                  "Time Series Forecast (ARIMA & Prophet)", "Upload & Analyze Data",
                  "Generate Reports", "About">>

\* the string literals of the if/elif chain, in the order of the chain
branch_literals == <<"Home", "Scenario Analysis", "Advanced Visualizations",
                     "Time Series Forecast (ARIMA & Prophet)", "Upload & Analyze Data",
                     "Generate Reports", "About">>

\* the branches of the if/elif chain that run for a choice: the first
\* literal equal to it, no branch when none is
Dispatch(choice) ==
    LET hits == {k \in 1..Len(branch_literals) : branch_literals[k] = choice}
    IN IF hits = {} THEN <<>>
       ELSE <<branch_literals[CHOOSE k \in hits : \A j \in hits : k <= j]>>

\* the CSV files the fixed path may hold: tables of MaxRows rows (as many as
\* the pool has, when it has fewer) with the schema, the schema plus a
\* prediction column, or the schema without the N2O column
AppRows == IF MaxRows < Len(RowPool) THEN MaxRows ELSE Len(RowPool)

AppBaselines ==
    {MkTable(cols, RowsOf(S)) :
        cols \in {Full, Full \o <<PRED>>, Without(Full, N2O)},
        S \in {T \in SUBSET (1..Len(RowPool)) :
                  Cardinality(T) = AppRows /\ {1, 3, Len(RowPool)} \subseteq T}}

\* pd.read_csv(file_path)
read_csv(file) == file

\* @st.cache_data load_data(): the file is read when the cache has no entry
\* for the call, and the entry is what every later call returns.
\* load_data_uncached is the function without the decorator.
load_data_uncached(c, file) ==
    [value |-> read_csv(file), cache |-> [filled |-> TRUE, value |-> read_csv(file)],
     read |-> 1]

load_data(c, file) ==
    IF c.filled THEN [value |-> c.value, cache |-> c, read |-> 0]
    ELSE [value |-> read_csv(file), cache |-> [filled |-> TRUE, value |-> read_csv(file)],
          read |-> 1]

\* df.head(k)
head(t, k) ==
    LET m == IF t.n < k THEN t.n ELSE k
    IN [cols |-> t.cols, n |-> m,
        data |-> [c \in DOMAIN t.data |-> SubSeq(t.data[c], 1, m)]]

\* df.rename(columns = {from1: to1, from2: to2}): a new table; the record
\* holds the new table and the value of the table it was called on.
\* df_rename_inplace renames the columns of the table itself.
df_rename_inplace(t, from1, to1, from2, to2) ==
    LET New(c) == IF c = from1 THEN to1 ELSE IF c = from2 THEN to2 ELSE c
        Old(c) == IF c = to1 THEN from1 ELSE IF c = to2 THEN from2 ELSE c
        r == [cols |-> [j \in 1..Len(t.cols) |-> New(t.cols[j])], n |-> t.n,
              data |-> [c \in {New(x) : x \in Range(t.cols)} |-> t.data[Old(c)]]]
    IN [value |-> r, self |-> r]

df_rename(t, from1, to1, from2, to2) ==
    LET New(c) == IF c = from1 THEN to1 ELSE IF c = from2 THEN to2 ELSE c
        Old(c) == IF c = to1 THEN from1 ELSE IF c = to2 THEN from2 ELSE c
        r == [cols |-> [j \in 1..Len(t.cols) |-> New(t.cols[j])], n |-> t.n,
              data |-> [c \in {New(x) : x \in Range(t.cols)} |-> t.data[Old(c)]]]
    IN [value |-> r, self |-> t]

\* df.to_csv(buffer, index=False): the header row, then one row per record
to_csv(t) ==
    <<t.cols>> \o [i \in 1..t.n |-> [j \in 1..Len(t.cols) |-> t.data[t.cols[j]][i]]]

\* uploaded CSV files: the columns and the dtype pandas gives each
UploadFiles ==
    {[cols |-> <<"a", "b">>, dtype |-> [c \in {"a", "b"} |-> "float64"]],
     [cols |-> <<"a", "name">>,
      dtype |-> [c \in {"a", "name"} |-> IF c = "name" THEN "object" ELSE "float64"]]}

\* the options of a column selectbox; without a file no selectbox is drawn
ColumnsOf(file) == IF file = NoFile THEN {"none"} ELSE Range(file.cols)

analyze_choices == {"Correlation Heatmap", "Histogram", "Scatter Plot"}

Init ==
    /\ B = NoTable
    /\ B0 = NoTable
    /\ ret = NoCall
    /\ mark = NoCall
    /\ before = FALSE
    /\ between = FALSE
    /\ disk \in AppBaselines
    /\ AppIdle

\* lines 56-74 of every run: the sidebar choice, then df = load_data()
RunHead(choice) ==
    LET ld == load_data(cache, disk)
    IN /\ runs < MaxRuns
       /\ runs' = runs + 1
       /\ menu_choice' = choice
       /\ section' = Dispatch(choice)
       /\ earlier' = sliders
       /\ cache' = ld.cache
       /\ reads' = reads + ld.read
       /\ loaded' = ld.value
       /\ first' = IF runs = 0 THEN ld.value ELSE first
       /\ UNCHANGED <<disk, fnvars>>

\* the table df of the run that is starting
RunDf == load_data(cache, disk).value

Home(choice) ==
    /\ Dispatch(choice) = <<"Home">>
    /\ RunHead(choice)
    /\ df' = RunDf
    /\ view' = [kind |-> "dataframe", table |-> head(RunDf, 10)]
    /\ outcome' = "ok"
    /\ message' = "none"
    /\ sliders' = NoSliders
    /\ upload' = NoUpload

\* (ScenarioAnalysis_accumulate: a page that adds the new slider values to
\* those of the render before instead of starting from the baseline)
ScenarioAnalysis_accumulate(choice, o) ==
    /\ Dispatch(choice) = <<"Scenario Analysis">>
    /\ RunHead(choice)
    /\ sliders' = o
    /\ upload' = NoUpload
    /\ LET r == generate_scenario(RunDf, Round(sliders[1] + o[1]), Round(sliders[2] + o[2]),
                                 Round(sliders[3] + o[3]))
       IN /\ df' = r.baseline
          /\ IF r.status # "ok"
             THEN outcome' = r.status /\ view' = NoView
             ELSE IF ~HasCol(r.value, YEAR)
             THEN outcome' = "ValueError" /\ view' = NoView
             ELSE /\ outcome' = "ok"
                  /\ view' = [kind |-> "line", table |-> r.value, x |-> YEAR,
                              y |-> <<TEMP, PRED>>]
    /\ message' = "none"

ScenarioAnalysis(choice, o) ==
    /\ Dispatch(choice) = <<"Scenario Analysis">>
    /\ RunHead(choice)
    /\ sliders' = o
    /\ upload' = NoUpload
    /\ LET r == generate_scenario(RunDf, o[1], o[2], o[3])
       IN /\ df' = r.baseline
          /\ IF r.status # "ok"
             THEN outcome' = r.status /\ view' = NoView
             ELSE IF ~HasCol(r.value, YEAR)
             THEN outcome' = "ValueError" /\ view' = NoView
             ELSE /\ outcome' = "ok"
                  /\ view' = [kind |-> "line", table |-> r.value, x |-> YEAR,
                              y |-> <<TEMP, PRED>>]
    /\ message' = "none"

AdvancedVisualizations(choice) ==
    /\ Dispatch(choice) = <<"Advanced Visualizations">>
    /\ RunHead(choice)
    /\ df' = RunDf
    /\ IF {CO2, TEMP, YEAR} \subseteq Range(RunDf.cols)
       THEN outcome' = "ok" /\ view' = [kind |-> "charts", table |-> RunDf]
       ELSE outcome' = "ValueError" /\ view' = NoView
    /\ message' = "none"
    /\ sliders' = NoSliders
    /\ upload' = NoUpload

\* fits is whether the two forecasting libraries fit the series
TimeSeriesForecast(choice, fits) ==
    /\ Dispatch(choice) = <<"Time Series Forecast (ARIMA & Prophet)">>
    /\ RunHead(choice)
    /\ IF ~HasCol(RunDf, TEMP) \/ ~HasCol(RunDf, YEAR)
       THEN df' = RunDf /\ outcome' = "KeyError" /\ view' = NoView
       ELSE LET rn == df_rename(RunDf, YEAR, "ds", TEMP, "y")
            IN /\ df' = rn.self
               /\ IF fits
                  THEN /\ outcome' = "ok"
                       /\ view' = [kind |-> "forecast", actual |-> rn.self.data[TEMP],
                                   prophet_df |-> rn.value]
                  ELSE outcome' = "ValueError" /\ view' = NoView
    /\ message' = "none"
    /\ sliders' = NoSliders
    /\ upload' = NoUpload

\* the columns of the uploaded table an analysis reads
ColumnsUsed(file, analyze_choice, x_col, y_col) ==
    CASE analyze_choice = "Correlation Heatmap" -> Range(file.cols)
      [] analyze_choice = "Histogram" -> {x_col}
      [] OTHER -> {x_col, y_col}

TextColumns(file) == {c \in Range(file.cols) : file.dtype[c] = "object"}

\* file is the uploaded file (NoFile when there is none), x_col and y_col the
\* columns picked for the histogram (x_col) or the scatter plot, and plots is
\* whether the plotting library accepts a column of text.  No statement of
\* the page is inside a try block: what a library call raises leaves the run.
UploadAnalyze(choice, file, analyze_choice, x_col, y_col, plots) ==
    /\ Dispatch(choice) = <<"Upload & Analyze Data">>
    /\ RunHead(choice)
    /\ df' = RunDf
    /\ sliders' = NoSliders
    /\ IF file = NoFile
       THEN /\ upload' = NoUpload
            /\ message' = "Please upload a CSV file to begin analysis."
            /\ outcome' = "ok"
            /\ view' = [kind |-> "upload", plotted |-> FALSE]
       ELSE /\ upload' = [file |-> file, analysis |-> analyze_choice,
                          columns |-> CASE analyze_choice = "Correlation Heatmap" -> <<>>
                                        [] analyze_choice = "Histogram" -> <<x_col>>
                                        [] OTHER -> <<x_col, y_col>>]
            /\ message' = "none"
            /\ LET hit == ColumnsUsed(file, analyze_choice, x_col, y_col)
                              \cap TextColumns(file) # {}
                   raised ==
                       CASE ~hit -> "ok"
                         [] analyze_choice = "Correlation Heatmap" -> "ValueError"
                         [] OTHER -> IF plots THEN "ok" ELSE "TypeError"
               IN /\ outcome' = raised
                  /\ view' = IF raised = "ok" THEN [kind |-> "upload", plotted |-> TRUE]
                             ELSE NoView

GenerateReports(choice) ==
    /\ Dispatch(choice) = <<"Generate Reports">>
    /\ RunHead(choice)
    /\ df' = RunDf
    /\ view' = [kind |-> "downloads", csv |-> to_csv(RunDf), sheet |-> to_csv(RunDf)]
    /\ outcome' = "ok"
    /\ message' = "none"
    /\ sliders' = NoSliders
    /\ upload' = NoUpload

\* the last elif of the chain has no else after it: it is reached when no
\* earlier branch ran, and a choice that is not its literal runs no section
About(choice) ==
    /\ Dispatch(choice) \notin {<<"Home">>, <<"Scenario Analysis">>,
                                <<"Advanced Visualizations">>,
                                <<"Time Series Forecast (ARIMA & Prophet)">>,
                                <<"Upload & Analyze Data">>, <<"Generate Reports">>}
    /\ RunHead(choice)
    /\ df' = RunDf
    /\ view' = IF Dispatch(choice) = <<"About">> THEN [kind |-> "about"] ELSE NoView
    /\ outcome' = "ok"
    /\ message' = "none"
    /\ sliders' = NoSliders
    /\ upload' = NoUpload

\* the file at the fixed path is replaced while the process runs
EditCsv(t) ==
    /\ runs >= 1
    /\ disk # t
    /\ disk' = t
    /\ UNCHANGED <<fnvars, cache, reads, runs, first, loaded, df, menu_choice, sliders,
                   earlier, upload, section, outcome, message, view>>

Next ==
    \/ \E choice \in Range(menu_options) : Home(choice)
    \/ \E choice \in Range(menu_options), o \in Offsets : ScenarioAnalysis(choice, o)
    \/ \E choice \in Range(menu_options) : AdvancedVisualizations(choice)
    \/ \E choice \in Range(menu_options), fits \in BOOLEAN : TimeSeriesForecast(choice, fits)
    \/ \E choice \in Range(menu_options), file \in UploadFiles \cup {NoFile} :
          \E a \in analyze_choices, x \in ColumnsOf(file), y \in ColumnsOf(file),
             plots \in BOOLEAN : UploadAnalyze(choice, file, a, x, y, plots)
    \/ \E choice \in Range(menu_options) : GenerateReports(choice)
    \/ \E choice \in Range(menu_options) : About(choice)
    \/ \E t \in AppBaselines : EditCsv(t)

Spec == Init /\ [][Next]_vars

\* ------------------------------------------------------ claims on the script
\* C8: read-only baseline. After every run, whatever the pages, sliders and
\* uploads so far, the script's df holds the values load_data() returned,
\* which are those of the first load.
C8_ReadOnlyBaseline ==
    runs >= 1 => (df = loaded /\ df = first /\ cache.value = first)

C8_Witness ==
    /\ runs >= 2
    /\ section = <<"Time Series Forecast (ARIMA & Prophet)">>
    /\ outcome = "ok"
    /\ HasCol(view.prophet_df, "ds")
    /\ df = first

\* the latest run drew the upload page and its analysis read a text column
TextRequest ==
    /\ section = <<"Upload & Analyze Data">>
    /\ upload.file # NoFile
    /\ LET cs == IF upload.analysis = "Correlation Heatmap"
                 THEN Range(upload.file.cols) ELSE Range(upload.columns)
       IN cs \cap TextColumns(upload.file) # {}

\* C9: upload errors are contained. A correlation, histogram or scatter
\* request that reads a non-numeric column ends with an error message written
\* by the page's own code, and no exception leaves the script run.
C9_UploadErrorsContained ==
    TextRequest => (message # "none" /\ outcome = "ok")

\* C10: loaded once. From the first run on the file has been read exactly
\* once, the cache holds the first load, and load_data() returns a table
\* equal to the first load in every run, whatever the file holds by then.
C10_LoadedOnce ==
    runs >= 1 =>
        /\ reads = 1
        /\ cache.filled /\ cache.value = first
        /\ loaded = first

C10_Witness ==
    /\ runs >= 3
    /\ disk # first
    /\ reads = 1
    /\ loaded = first

\* what each section hands to the renderer when it runs to its end
KindOf(sec) ==
    CASE sec = "Home" -> "dataframe"
      [] sec = "Scenario Analysis" -> "line"
      [] sec = "Advanced Visualizations" -> "charts"
      [] sec = "Time Series Forecast (ARIMA & Prophet)" -> "forecast"
      [] sec = "Upload & Analyze Data" -> "upload"
      [] sec = "Generate Reports" -> "downloads"
      [] OTHER -> "about"

\* C11: mutually exclusive dispatch. In every run the sidebar choice is one
\* of the seven options and exactly one page section runs: the one whose
\* literal is the choice, and what is rendered is that section's output.
C11_ExclusiveDispatch ==
    runs >= 1 =>
        /\ menu_choice \in Range(menu_options)
        /\ Len(section) = 1
        /\ section[1] = menu_choice
        /\ Cardinality({k \in 1..Len(branch_literals) : branch_literals[k] = menu_choice}) = 1
        /\ outcome = "ok" => view.kind = KindOf(section[1])

C11_Witness ==
    /\ runs >= 2
    /\ menu_choice = menu_options[6]
    /\ section = <<"Generate Reports">>
    /\ view.kind = "downloads"

\* the latest run rendered the scenario page to its end
Rendered == section = <<"Scenario Analysis">> /\ outcome = "ok"

\* the baseline's concentration columns shifted by the current slider values
ShiftedX == [g \in 1..3 |-> [i \in 1..first.n |-> Round(first.data[Gases[g]][i] + sliders[g])]]

\* C12: no state carried across scenario runs. Whatever was rendered before,
\* the table plotted now is generate_scenario(baseline, current sliders): the
\* baseline's concentrations shifted by the current slider values only, the
\* observed anomalies untouched, and the prediction the fit of the observed
\* anomalies on these shifted columns.
C12_NoCarriedState ==
    Rendered =>
        /\ view.table = generate_scenario(first, sliders[1], sliders[2], sliders[3]).value
        /\ \A g \in 1..3 : view.table.data[Gases[g]] = ShiftedX[g]
        /\ view.table.data[TEMP] = first.data[TEMP]
        /\ view.table.data[PRED] = Proj(first.data[TEMP], OrthoBasis(<<Ones(first.n)>> \o ShiftedX, <<>>))

C12_Witness ==
    /\ Rendered
    /\ earlier # NoSliders
    /\ sliders # NoSliders
    /\ earlier # sliders
    /\ disk # first
    /\ view.table.data[CO2] # first.data[CO2]

\* ------------------------------------- the prediction under the offsets
\* no addition of the offsets o to the baseline's concentrations rounds
ExactShift(o) ==
    \A g \in 1..3 : \A i \in 1..B0.n : Representable(B0.data[Gases[g]][i] + o[g])

\* the latest call and an earlier call on the same baseline both returned
TwoReturned == Returned /\ mark.kind = "call" /\ mark.status = "ok"

\* C13: offsets do not change the prediction. In exact arithmetic (no
\* addition of an offset rounds; the fit is computed exactly) two calls on
\* the same baseline return the same Predicted_Temperature_Anomaly_C column
\* whatever their offsets; the tables differ in the three concentration
\* columns only.
C13_PredictionUnmoved ==
    (TwoReturned /\ ExactShift(ret.offs) /\ ExactShift(mark.offs)) =>
        /\ ret.value.data[PRED] = mark.value.data[PRED]
        /\ \A c \in Range(ret.value.cols) \ Range(Gases) :
              ret.value.data[c] = mark.value.data[c]
        /\ \A g \in 1..3 : \A i \in 1..B0.n :
              ret.value.data[Gases[g]][i] - mark.value.data[Gases[g]][i]
                 = ret.offs[g] - mark.offs[g]

C13_Witness ==
    /\ TwoReturned
    /\ ExactShift(ret.offs) /\ ExactShift(mark.offs)
    /\ ret.offs # mark.offs
    /\ ret.value.data[CH4] # mark.value.data[CH4]
    /\ B0.n >= 3
    /\ \E i \in 1..B0.n : ret.value.data[PRED][i] # <<B0.data[TEMP][i], 1>>
    /\ ret.value.data[PRED] = mark.value.data[PRED]

============================================================================
